---- MODULE Spec2Model ----
(***************************************************************************)
(* A model of truba's pipeline: the facade of src/src/pipeline.ts, the     *)
(* transformers and sinks of src/src/index.ts, and the fork subsystem,     *)
(* multi-destination pipe and error-mapped map that pipeline.ts imports    *)
(* from ./fork, ./consumers and ./transformers (modelled from sections     *)
(* 4.2-4.4 of the specification, their files not being among the sources). *)
(*                                                                         *)
(* Four specifications share the variables:                                *)
(*   SpecFacade  the object graph built by chaining, fork() and sinks      *)
(*   SpecFork    fork() on one facade and the branches' interleaved pulls  *)
(*   SpecStages  take / chunk / map applied to arrays, then result()       *)
(*   SpecPipe    pipe(...destinations) with slow and failing destinations  *)
(***************************************************************************)
EXTENDS Integers, Sequences, FiniteSets, TLC

\* ------------------------------------------------------------------ bounds
MaxLen == 3          \* longest source array
MaxBranches == 3     \* most branches handed out by fork()
MaxObjects == 4      \* most sequence instances and sink runs in the facade graph
MaxItem == 2         \* largest item of a source array
MaxStages == 2       \* most stages chained before result()
MaxDests == 2        \* most destinations given to pipe()

VARIABLES
    \* the facade graph (pipeline.ts)
    generator,        \* facade -> its current sequence (let generator)
    forkedGenerator,  \* facade -> its cached ForkableGenerator, 0 = undefined
    seqs,             \* sequence instances: [kind, upstream, factory]
    factories,        \* ForkableGenerators: [source]
    sinks,            \* terminal calls run so far: [kind, seq]
    lastCall,         \* the last facade call: [op, on, ret]
    chained,          \* history: facade -> stage kinds chained through it
    origin,           \* history: facade -> the sequence it was constructed on
    built,            \* history: facade -> createForkableGenerator calls made
    \* the fork subsystem (fork.ts)
    fstate,           \* factory -> shared fork state
    handles,          \* branch handles: [factory, cursor, pc, out]
    source,           \* the items the origin sequence yields
    srcPos,           \* how many of them it has yielded
    upPending,        \* upstream next() calls in flight (the calling factory)
    pulls,            \* history: upstream pulls that yielded a value
    \* stages and sinks run on arrays (index.ts)
    input,            \* the source array
    stream,           \* what the facade's current sequence yields: [items, thrown]
    stages,           \* history: the stages chained so far: [op, arg, on]
    res,              \* what result() returned: [status, value]
    \* pipe (consumers.ts)
    pipe              \* the pipe() call: [pc, pos, requested, dests, handed,
                      \*   settled, rejected, ended, lagged]

facadeVars == <<generator, forkedGenerator, seqs, factories, sinks, lastCall,
                chained, origin, built>>
forkVars == <<fstate, handles, source, srcPos, upPending, pulls>>
stageVars == <<input, stream, stages, res>>
vars == <<facadeVars, forkVars, stageVars, pipe>>

\* ----------------------------------------------------------------- helpers
Min(a, b) == IF a < b THEN a ELSE b

Last(s) == s[Len(s)]

\* The chaining methods of the facade, by the stage(s) each wraps around the
\* current sequence (flatMap wraps two: flat(map(generator, fn))).
StagesOfMethod ==
    [split |-> <<"split">>, join |-> <<"join">>, map |-> <<"map">>,
     filter |-> <<"filter">>, chunk |-> <<"chunk">>, take |-> <<"take">>,
     flat |-> <<"flat">>, flatMap |-> <<"map", "flat">>,
     collect |-> <<"collect">>, tap |-> <<"tap">>, unique |-> <<"unique">>,
     reduce |-> <<"reduce">>, groupBy |-> <<"reduce">>,
     validate |-> <<"validate">>]

ChainMethods == DOMAIN StagesOfMethod

\* The terminal methods: each hands the current sequence to a consumer.
SinkMethods == {"result", "each", "pipe", "pipeFirst", "toStream"}

Facades == DOMAIN generator

Objects == Len(seqs) + Len(sinks)

\* ------------------------------------------------------------ facade graph
\* pipeline(source): a new facade, closing over generator = source and a
\* forkedGenerator that is still undefined.
pipeline(src) == [generator |-> src, forkedGenerator |-> 0]

\* Wrap the stages of one chaining method around sequence g: the new sequence
\* instances, innermost first.
RECURSIVE Wrap(_, _, _)
Wrap(g, kinds, at) ==
    IF kinds = <<>> THEN <<>>
    ELSE <<[kind |-> Head(kinds), upstream |-> g, factory |-> 0]>>
         \o Wrap(at, Tail(kinds), at + 1)

\* A chaining method as index.ts's pipelineBase has it: the stage goes into a
\* fresh facade and the receiver keeps its sequence.
chainFresh(f, m) ==
    LET new == Wrap(generator[f], StagesOfMethod[m], Len(seqs) + 1)
        nf == Len(generator) + 1
    IN  /\ seqs' = seqs \o new
        /\ generator' = Append(generator, pipeline(Len(seqs) + Len(new)).generator)
        /\ forkedGenerator' = Append(forkedGenerator, 0)
        /\ lastCall' = [op |-> m, on |-> f, ret |-> nf]
        /\ chained' = Append(chained, <<>>)
        /\ origin' = Append(origin, Len(seqs) + Len(new))
        /\ built' = Append(built, 0)
        /\ UNCHANGED <<factories, sinks>>

\* f.map(..), f.take(..), ...: generator = stage(generator, ..); return this
chain(f, m) ==
    LET new == Wrap(generator[f], StagesOfMethod[m], Len(seqs) + 1)
    IN  /\ seqs' = seqs \o new
        /\ generator' = [generator EXCEPT ![f] = Len(seqs) + Len(new)]
        /\ lastCall' = [op |-> m, on |-> f, ret |-> f]
        /\ chained' = [chained EXCEPT ![f] = @ \o StagesOfMethod[m]]
        /\ UNCHANGED <<forkedGenerator, factories, sinks, origin, built>>

\* f.result(), f.each(..), f.pipe(..), ...: the sink consumes generator
sink(f, m) ==
    /\ sinks' = Append(sinks, [kind |-> m, seq |-> generator[f]])
    /\ lastCall' = [op |-> m, on |-> f, ret |-> 0]
    /\ UNCHANGED <<generator, forkedGenerator, seqs, factories, chained,
                   origin, built>>

\* fork() with the cache test dropped: a new ForkableGenerator on every call.
NeedsForkableAlways(f) == TRUE

\* if (!forkedGenerator)
NeedsForkable(f) == forkedGenerator[f] = 0

\* createForkableGenerator(g): the factory around sequence g, and its shared
\* state, which the first pull of a branch creates.
createForkableGenerator(g) == [source |-> g]

NewForkState ==
    [created |-> FALSE, buffer |-> <<>>, base |-> 0, exhausted |-> FALSE,
     mutex |-> 0, readers |-> 0]

\* ForkFactory.fork(): a new branch handle of factory k, its cursor at the
\* start.
ForkFactoryFork(k) == [factory |-> k, cursor |-> 0, pc |-> "idle", out |-> <<>>]

\* Branches are requested before any branch of the factory pulls: section 4.3
\* defines no replay for a branch requested later, and the model covers the
\* defined use only.
CanFork(st) == ~st.created

\* f.fork()
fork(f) ==
    LET fresh == NeedsForkable(f)
        k == IF fresh THEN Len(factories) + 1 ELSE forkedGenerator[f]
        fst == IF fresh THEN Append(fstate, NewForkState) ELSE fstate
        s == Len(seqs) + 1
        nf == Len(generator) + 1
    IN  /\ CanFork(fst[k])
        /\ factories' = IF fresh
                          THEN Append(factories,
                                      createForkableGenerator(generator[f]))
                          ELSE factories
        /\ fstate' = fst
        /\ handles' = Append(handles, ForkFactoryFork(k))
        /\ seqs' = Append(seqs, [kind |-> "branch", upstream |-> 0,
                                 factory |-> k])
        /\ generator' = Append(generator, pipeline(s).generator)
        /\ forkedGenerator' = Append([forkedGenerator EXCEPT ![f] = k],
                                     pipeline(s).forkedGenerator)
        /\ lastCall' = [op |-> "fork", on |-> f, ret |-> nf]
        /\ chained' = Append(chained, <<>>)
        /\ origin' = Append(origin, s)
        /\ built' = Append([built EXCEPT ![f] = @ + (IF fresh THEN 1 ELSE 0)],
                           0)
        /\ UNCHANGED sinks

\* ----------------------------------------------------------- fork subsystem
WritePos(k) == fstate[k].base + Len(fstate[k].buffer)

HandlesOf(k) == {h \in DOMAIN handles : handles[h].factory = k}

\* The shared state as the first pull of a branch creates it: the reader
\* count is the number of handles the factory has handed out by then.
Created(k) ==
    IF fstate[k].created THEN fstate[k]
    ELSE [fstate[k] EXCEPT !.created = TRUE,
                           !.readers = Cardinality(HandlesOf(k))]

\* Drop the slots at the buffer's front whose pending-reader count is zero.
RECURSIVE Evict(_)
Evict(st) ==
    IF st.buffer # <<>> /\ Head(st.buffer).pending = 0
      THEN Evict([st EXCEPT !.buffer = Tail(@), !.base = @ + 1])
      ELSE st

\* Slots are tagged with one pending reader whatever the number of branches.
PendingReadersOne(st) == 1

\* The pending-reader count a newly appended slot is tagged with.
PendingReaders(st) == st.readers

\* Handle h takes the slot at its cursor: the item goes to its consumer, the
\* cursor advances, the slot's count drops and empty front slots are evicted.
Served(st, h) ==
    LET i == handles[h].cursor - st.base + 1
    IN  Evict([st EXCEPT !.buffer[i].pending = @ - 1])

ServeItem(st, h) ==
    LET k == handles[h].factory
        i == handles[h].cursor - st.base + 1
    IN  /\ handles' = [handles EXCEPT ![h].cursor = @ + 1,
                                      ![h].out = Append(@, st.buffer[i].item),
                                      ![h].pc = "idle"]
        /\ fstate' = [fstate EXCEPT ![k] = Served(st, h)]

HasItem(st, h) ==
    /\ handles[h].cursor >= st.base
    /\ handles[h].cursor < st.base + Len(st.buffer)

\* The consumer of branch h calls next(): a buffered item is served at once,
\* an exhausted upstream ends the branch, and at the write frontier the
\* handle queues for the upstream mutex.
BranchNext(h) ==
    LET k == handles[h].factory
        st == Created(k)
    IN  /\ handles[h].pc = "idle"
        /\ IF HasItem(st, h) THEN ServeItem(st, h)
           ELSE /\ fstate' = [fstate EXCEPT ![k] = st]
                /\ handles' = [handles EXCEPT ![h].pc =
                                 IF st.exhausted THEN "done" ELSE "wait"]
        /\ UNCHANGED <<source, srcPos, upPending, pulls>>
        /\ UNCHANGED facadeVars

\* Handle h gets the mutex. If another handle extended the buffer meanwhile it
\* is served from the buffer; otherwise it pulls the upstream once.
Acquire(h) ==
    LET k == handles[h].factory
        st == fstate[k]
    IN  /\ handles[h].pc = "wait"
        /\ st.mutex = 0
        /\ IF HasItem(st, h)
             THEN ServeItem(st, h) /\ UNCHANGED upPending
           ELSE IF st.exhausted
             THEN /\ handles' = [handles EXCEPT ![h].pc = "done"]
                  /\ UNCHANGED <<fstate, upPending>>
           ELSE /\ fstate' = [fstate EXCEPT ![k].mutex = h]
                /\ handles' = [handles EXCEPT ![h].pc = "pulling"]
                /\ upPending' = Append(upPending, k)
        /\ UNCHANGED <<source, srcPos, pulls>>
        /\ UNCHANGED facadeVars

\* The origin sequence answers its oldest next() call: the item is appended
\* to the caller's buffer, or the caller's state is marked exhausted; the
\* mutex is released and the pulling handle goes on to serve itself.
UpstreamYield ==
    /\ upPending # <<>>
    /\ LET k == Head(upPending)
           st == fstate[k]
           h == st.mutex
       IN  /\ IF srcPos < Len(source)
                THEN /\ fstate' = [fstate EXCEPT
                          ![k].buffer = Append(@,
                              [item |-> source[srcPos + 1],
                               pending |-> PendingReaders(st)]),
                          ![k].mutex = 0]
                     /\ srcPos' = srcPos + 1
                     /\ pulls' = pulls + 1
                ELSE /\ fstate' = [fstate EXCEPT ![k].exhausted = TRUE,
                                                 ![k].mutex = 0]
                     /\ UNCHANGED <<srcPos, pulls>>
           /\ handles' = [handles EXCEPT ![h].pc = "serve"]
    /\ upPending' = Tail(upPending)
    /\ UNCHANGED source
    /\ UNCHANGED facadeVars

\* The handle that pulled serves itself what the pull brought.
Serve(h) ==
    LET k == handles[h].factory
        st == fstate[k]
    IN  /\ handles[h].pc = "serve"
        /\ IF HasItem(st, h) THEN ServeItem(st, h)
           ELSE /\ handles' = [handles EXCEPT ![h].pc = "done"]
                /\ UNCHANGED fstate
        /\ UNCHANGED <<source, srcPos, upPending, pulls>>
        /\ UNCHANGED facadeVars

\* ------------------------------------------------------- stages on arrays
\* A sequence is modelled by what a full drain of it observes: the items it
\* yields, in order, and whether it then throws instead of ending.
Values == 1..MaxItem

Arrays == UNION {[1..n -> Values] : n \in 0..MaxLen}

\* async function* arrayGenerator(source)
arrayGenerator(arr) == [items |-> arr, thrown |-> FALSE]

\* take: res.push(item); if (res.length === count) break; then yield* res.
\* Nothing is yielded before the loop ends, so an upstream throw leaves no item.
RECURSIVE takeLoop(_, _, _, _)
takeLoop(src, count, i, r) ==
    IF i = Len(src.items)
      THEN IF src.thrown THEN [items |-> <<>>, thrown |-> TRUE]
                         ELSE [items |-> r, thrown |-> FALSE]
      ELSE LET r2 == Append(r, src.items[i + 1])
           IN  IF Len(r2) = count THEN [items |-> r2, thrown |-> FALSE]
               ELSE takeLoop(src, count, i + 1, r2)

take(src, count) == takeLoop(src, count, 0, <<>>)

\* chunk without the final "if (buffer.length) yield buffer".
RECURSIVE chunkLoopNoRest(_, _, _, _, _)
chunkLoopNoRest(src, size, i, buffer, out) ==
    IF i = Len(src.items)
      THEN [items |-> out, thrown |-> src.thrown]
      ELSE LET b == Append(buffer, src.items[i + 1])
           IN  IF Len(b) = size
                 THEN chunkLoopNoRest(src, size, i + 1, <<>>, Append(out, b))
                 ELSE chunkLoopNoRest(src, size, i + 1, b, out)

\* chunk: buffer.push(item); a full buffer is yielded and reset; what is left
\* when the source ends is yielded if it is not empty.
RECURSIVE chunkLoop(_, _, _, _, _)
chunkLoop(src, size, i, buffer, out) ==
    IF i = Len(src.items)
      THEN IF src.thrown THEN [items |-> out, thrown |-> TRUE]
           ELSE [items |-> IF Len(buffer) # 0 THEN Append(out, buffer) ELSE out,
                 thrown |-> FALSE]
      ELSE LET b == Append(buffer, src.items[i + 1])
           IN  IF Len(b) = size
                 THEN chunkLoop(src, size, i + 1, <<>>, Append(out, b))
                 ELSE chunkLoop(src, size, i + 1, b, out)

chunkNoRest(src, size) == chunkLoopNoRest(src, size, 0, <<>>, <<>>)

chunk(src, size) == chunkLoop(src, size, 0, <<>>, <<>>)

\* The callbacks given to map: one that never throws, one that throws on
\* even items.
Fns == {"double", "failEven"}

Throws(fn, x) == fn = "failEven" /\ x % 2 = 0

Call(fn, x) == IF fn = "double" THEN 2 * x ELSE x + 10

\* The error policies given to map: none, or a function of the item answering
\* skip, substitute(0) or propagate.
ErrorMaps == {"none", "skip", "substitute", "propagate", "skipSmall"}

Outcome(errorMap, x) ==
    CASE errorMap = "skip" -> "skip"
      [] errorMap = "substitute" -> "substitute"
      [] errorMap = "skipSmall" -> IF x <= 2 THEN "skip" ELSE "propagate"
      [] OTHER -> "propagate"

\* map: yield fn(item); when fn throws the policy decides: the item is
\* dropped, replaced, or the error ends the sequence.
RECURSIVE mapLoop(_, _, _, _, _)
mapLoop(src, fn, errorMap, i, out) ==
    IF i = Len(src.items)
      THEN [items |-> out, thrown |-> src.thrown]
      ELSE LET x == src.items[i + 1]
           IN  IF ~Throws(fn, x)
                 THEN mapLoop(src, fn, errorMap, i + 1, Append(out, Call(fn, x)))
               ELSE IF Outcome(errorMap, x) = "skip"
                 THEN mapLoop(src, fn, errorMap, i + 1, out)
               ELSE IF Outcome(errorMap, x) = "substitute"
                 THEN mapLoop(src, fn, errorMap, i + 1, Append(out, 0))
               ELSE [items |-> out, thrown |-> TRUE]

map(src, fn, errorMap) == mapLoop(src, fn, errorMap, 0, <<>>)

\* result: the drained items, or the rejection the sequence's throw causes.
result(src) ==
    IF src.thrown THEN [status |-> "error", value |-> <<>>]
                  ELSE [status |-> "ok", value |-> src.items]

\* The facade's map with the policy argument left out of the call.
facadeMapCallNoPolicy(g, fn, errorMap) == map(g, fn, "none")

\* generator = map(generator, fn, errorMap)
facadeMapCall(g, fn, errorMap) == map(g, fn, errorMap)

\* Whether the items of the current sequence are still those of the array
\* (numbers) and not groups.
Numeric == \A i \in DOMAIN stages : stages[i].op # "chunk"

Chained(op, arg, out) ==
    /\ res.status = "none"
    /\ stream' = out
    /\ stages' = Append(stages, [op |-> op, arg |-> arg, on |-> stream])
    /\ UNCHANGED <<input, res>>

\* take(count) { generator = take(generator, count); return this; }
facadeTake(count) == Chained("take", count, take(stream, count))

\* chunk(size) { generator = chunk(generator, size); return this; }
facadeChunk(size) == Chained("chunk", size, chunk(stream, size))

\* map(fn, errorMap) { generator = map(generator, fn, errorMap); return this; }
facadeMap(fn, errorMap) ==
    /\ Numeric
    /\ Chained("map", <<fn, errorMap>>, facadeMapCall(stream, fn, errorMap))

\* result() { return result(generator); }
facadeResult ==
    /\ res.status = "none"
    /\ res' = result(stream)
    /\ UNCHANGED <<input, stream, stages>>

\* ---------------------------------------------------------------------- pipe
Dests == DOMAIN pipe.handed

NoPipe ==
    [pc |-> "idle", pos |-> 0, requested |-> <<>>, dests |-> <<>>,
     handed |-> <<>>, settled |-> <<>>, rejected |-> {}, ended |-> <<>>,
     lagged |-> FALSE]

\* The facade's pipe handing on only its first destination.
facadePipeCallFirstOnly(g, destinations) ==
    [source |-> g, destinations |-> SubSeq(destinations, 1, 1)]

\* pipe(...destinations) { return pipe(generator, destinations); }
facadePipeCall(g, destinations) == [source |-> g, destinations |-> destinations]

\* The facade's pipe(d1, ..., dn): the drain starts on the given destinations.
facadePipe(destinations) ==
    /\ pipe.pc = "idle"
    /\ pipe' = [pipe EXCEPT
          !.pc = "pull",
          !.requested = destinations,
          !.dests = facadePipeCall(stream, destinations).destinations,
          !.handed = [d \in DOMAIN destinations |-> <<>>],
          !.settled = [d \in DOMAIN destinations |-> 0],
          !.ended = [d \in DOMAIN destinations |-> 0]]
    /\ UNCHANGED stageVars

Range(f) == {f[x] : x \in DOMAIN f}

\* The drain pulls the next item and hands it to every destination's write;
\* a source that has ended leads to the end signals.
PipePull ==
    /\ pipe.pc = "pull"
    /\ IF pipe.pos < Len(stream.items)
         THEN pipe' = [pipe EXCEPT
                 !.pos = @ + 1,
                 !.pc = "await",
                 !.handed = [d \in DOMAIN @ |->
                               IF d \in Range(pipe.dests)
                                 THEN Append(@[d], stream.items[pipe.pos + 1])
                                 ELSE @[d]]]
         ELSE pipe' = [pipe EXCEPT
                 !.pc = IF stream.thrown THEN "failed" ELSE "end"]
    /\ UNCHANGED stageVars

\* Destination d finishes its outstanding write, however late, accepting or
\* rejecting it.
DestSettle(d, ok) ==
    /\ pipe.settled[d] < Len(pipe.handed[d])
    /\ LET after == [pipe.settled EXCEPT ![d] = @ + 1]
       IN  pipe' = [pipe EXCEPT
              !.settled = after,
              !.rejected = IF ok THEN @ ELSE @ \cup {d},
              !.lagged = @ \/ (\E e \in Range(pipe.dests) : after[e] < after[d])]
    /\ UNCHANGED stageVars

\* Every write of the item has settled: the drain goes on, or fails with the
\* rejection.
PipeAwaited ==
    /\ pipe.pc = "await"
    /\ \A d \in Dests : pipe.settled[d] = Len(pipe.handed[d])
    /\ pipe' = [pipe EXCEPT !.pc = IF pipe.rejected = {} THEN "pull" ELSE "failed"]
    /\ UNCHANGED stageVars

\* The source has ended: each destination is signalled its end.
PipeEnd ==
    /\ pipe.pc = "end"
    /\ pipe' = [pipe EXCEPT
          !.pc = "done",
          !.ended = [d \in DOMAIN @ |->
                       IF d \in Range(pipe.dests) THEN @[d] + 1 ELSE @[d]]]
    /\ UNCHANGED stageVars

\* ---------------------------------------------------------- specifications
\* One facade on a source sequence, nothing chained, forked or consumed.
InitFacade ==
    /\ generator = <<pipeline(1).generator>>
    /\ forkedGenerator = <<pipeline(1).forkedGenerator>>
    /\ seqs = <<[kind |-> "source", upstream |-> 0, factory |-> 0]>>
    /\ factories = <<>>
    /\ sinks = <<>>
    /\ lastCall = [op |-> "pipeline", on |-> 0, ret |-> 1]
    /\ chained = <<<<>>>>
    /\ origin = <<1>>
    /\ built = <<0>>

InitStagesIdle ==
    /\ input = <<>>
    /\ stream = arrayGenerator(<<>>)
    /\ stages = <<>>
    /\ res = [status |-> "none", value |-> <<>>]
    /\ pipe = NoPipe

InitForkIdle ==
    /\ fstate = <<>>
    /\ handles = <<>>
    /\ source = <<>>
    /\ srcPos = 0
    /\ upPending = <<>>
    /\ pulls = 0

InitFork ==
    /\ InitFacade
    /\ InitStagesIdle
    /\ fstate = <<>>
    /\ handles = <<>>
    /\ source \in {[i \in 1..n |-> i] : n \in 0..MaxLen}
    /\ srcPos = 0
    /\ upPending = <<>>
    /\ pulls = 0

NextFork ==
    \/ /\ Len(handles) < MaxBranches
       /\ fork(1)
       /\ UNCHANGED <<source, srcPos, upPending, pulls, stageVars, pipe>>
    \/ \E h \in DOMAIN handles :
          BranchNext(h) /\ UNCHANGED <<stageVars, pipe>>
    \/ \E h \in DOMAIN handles :
          Acquire(h) /\ UNCHANGED <<stageVars, pipe>>
    \/ UpstreamYield /\ UNCHANGED <<stageVars, pipe>>
    \/ \E h \in DOMAIN handles :
          Serve(h) /\ UNCHANGED <<stageVars, pipe>>

SpecFork == InitFork /\ [][NextFork]_vars

NextFacade ==
    \/ \E f \in Facades, m \in ChainMethods :
          /\ Objects + Len(StagesOfMethod[m]) <= MaxObjects
          /\ chain(f, m)
          /\ UNCHANGED <<forkVars, stageVars, pipe>>
    \/ \E f \in Facades :
          /\ Objects < MaxObjects
          /\ Len(handles) < MaxBranches
          /\ fork(f)
          /\ UNCHANGED <<source, srcPos, upPending, pulls, stageVars, pipe>>
    \/ \E f \in Facades, m \in SinkMethods :
          /\ Objects < MaxObjects
          /\ sink(f, m)
          /\ UNCHANGED <<forkVars, stageVars, pipe>>

InitFacadeIdle == InitFacade /\ InitForkIdle /\ InitStagesIdle

\* A facade on an array: stages are chained, then result() drains it.
InitStages ==
    /\ InitFacade
    /\ InitForkIdle
    /\ input \in Arrays
    /\ stream = arrayGenerator(input)
    /\ stages = <<>>
    /\ res = [status |-> "none", value |-> <<>>]
    /\ pipe = NoPipe

NextStages ==
    \/ \E count \in 0..(MaxLen + 1) :
          /\ Len(stages) < MaxStages
          /\ facadeTake(count)
          /\ UNCHANGED <<facadeVars, forkVars, pipe>>
    \/ \E size \in 0..(MaxLen + 1) :
          /\ Len(stages) < MaxStages
          /\ facadeChunk(size)
          /\ UNCHANGED <<facadeVars, forkVars, pipe>>
    \/ \E fn \in Fns, errorMap \in ErrorMaps :
          /\ Len(stages) < MaxStages
          /\ facadeMap(fn, errorMap)
          /\ UNCHANGED <<facadeVars, forkVars, pipe>>
    \/ facadeResult /\ UNCHANGED <<facadeVars, forkVars, pipe>>

SpecStages == InitStages /\ [][NextStages]_vars

\* A facade on an array, piped to one or more destinations.
InitPipe ==
    /\ InitFacade
    /\ InitForkIdle
    /\ input \in Arrays
    /\ stream = arrayGenerator(input)
    /\ stages = <<>>
    /\ res = [status |-> "none", value |-> <<>>]
    /\ pipe = NoPipe

NextPipe ==
    \/ \E n \in 1..MaxDests :
          facadePipe([d \in 1..n |-> d]) /\ UNCHANGED <<facadeVars, forkVars>>
    \/ PipePull /\ UNCHANGED <<facadeVars, forkVars>>
    \/ \E d \in Dests, ok \in BOOLEAN :
          DestSettle(d, ok) /\ UNCHANGED <<facadeVars, forkVars>>
    \/ PipeAwaited /\ UNCHANGED <<facadeVars, forkVars>>
    \/ PipeEnd /\ UNCHANGED <<facadeVars, forkVars>>

SpecPipe == InitPipe /\ [][NextPipe]_vars

SpecFacade == InitFacadeIdle /\ [][NextFacade]_vars

\* ------------------------------------------------- properties: fork subsystem
IsPrefix(a, b) == Len(a) <= Len(b) /\ a = SubSeq(b, 1, Len(a))

AllDone == handles # <<>> /\ \A h \in DOMAIN handles : handles[h].pc = "done"

\* C1: with N >= 2 branches forked before any pull, every branch sees a prefix
\* of the upstream's items at every moment (nothing skipped, duplicated or
\* reordered) and exactly the L upstream items once it is drained.
C1_EveryBranchSeesAll ==
    Len(handles) >= 2 =>
        \A h \in DOMAIN handles :
            /\ IsPrefix(handles[h].out, source)
            /\ handles[h].pc = "done" => handles[h].out = source

\* Two or more branches, each drained of a source of two or more items.
C1_Witness ==
    /\ Len(handles) >= 2
    /\ Len(source) >= 2
    /\ AllDone
    /\ \A h \in DOMAIN handles : handles[h].out = source

\* C2: at most one upstream pull is in flight at any moment, held by the one
\* handle that has the mutex, and once every branch is drained the upstream
\* has yielded a value to exactly L pulls, however many branches there are.
C2_UpstreamPulledOncePerItem ==
    /\ Len(upPending) <= 1
    /\ Cardinality({h \in DOMAIN handles : handles[h].pc = "pulling"})
         = Len(upPending)
    /\ pulls <= Len(source)
    /\ AllDone => pulls = Len(source)

\* Two branches at the write frontier at once: one pulls, the other waits.
C2_Witness ==
    \E h1, h2 \in DOMAIN handles :
        /\ handles[h1].pc = "pulling"
        /\ handles[h2].pc = "wait"
        /\ handles[h1].cursor = handles[h2].cursor
        /\ pulls >= 1

RECURSIVE Kinds(_)
Kinds(s) ==
    IF seqs[s].upstream = 0 THEN <<>>
    ELSE Append(Kinds(seqs[s].upstream), seqs[s].kind)

\* The sequence n stages upstream of s in the graph sq.
RECURSIVE Up(_, _, _)
Up(sq, s, n) == IF n = 0 THEN s ELSE Up(sq, sq[s].upstream, n - 1)

BranchesOf(k) == {s \in DOMAIN seqs : seqs[s].kind = "branch" /\ seqs[s].factory = k}

\* A fork() step: the first on a facade builds the fork subsystem around the
\* facade's current sequence, a later one reuses it; either returns a facade
\* that did not exist, on a branch that did not exist.
C7_ForkStep ==
    Len(handles') > Len(handles) =>
        LET f == lastCall'.on
            r == lastCall'.ret
        IN  /\ lastCall'.op = "fork"
            /\ r \notin DOMAIN generator /\ r \in DOMAIN generator'
            /\ generator'[r] \notin DOMAIN seqs
            /\ seqs'[generator'[r]].kind = "branch"
            /\ seqs'[generator'[r]].factory = forkedGenerator'[f]
            /\ \A g \in DOMAIN generator : generator'[g] = generator[g]
            /\ IF forkedGenerator[f] = 0
                 THEN factories' = Append(factories, [source |-> generator[f]])
                      /\ forkedGenerator'[f] = Len(factories')
                 ELSE factories' = factories
                      /\ forkedGenerator'[f] = forkedGenerator[f]

\* C7: on every facade at most one fork subsystem is ever built and cached,
\* and every fork() step reuses it and returns a new facade on a new branch.
C7_ForkBuiltOnce ==
    /\ [](\A f \in Facades :
            /\ built[f] <= 1
            /\ built[f] = 1 <=> forkedGenerator[f] # 0)
    /\ [][C7_ForkStep]_vars

\* A second fork() on a facade that chained a stage after its first fork().
C7_Witness ==
    /\ lastCall.op = "fork"
    /\ built[lastCall.on] = 1
    /\ \E b1, b2 \in BranchesOf(forkedGenerator[lastCall.on]) :
          /\ b1 < generator[lastCall.on]
          /\ generator[lastCall.on] < b2
          /\ seqs[generator[lastCall.on]].upstream # 0

\* A chaining step returns the facade it was called on and changes only that
\* facade's current sequence, to the method's stage(s) wrapped around the
\* previous one.
C8_ChainStep ==
    (Len(seqs') > Len(seqs) /\ Len(handles') = Len(handles)) =>
        LET f == lastCall'.on
            st == StagesOfMethod[lastCall'.op]
        IN  /\ lastCall'.op \in ChainMethods
            /\ lastCall'.ret = f
            /\ DOMAIN generator' = DOMAIN generator
            /\ \A g \in DOMAIN generator \ {f} : generator'[g] = generator[g]
            /\ forkedGenerator' = forkedGenerator
            /\ factories' = factories
            /\ sinks' = sinks
            /\ SubSeq(seqs', 1, Len(seqs)) = seqs
            /\ Up(seqs', generator'[f], Len(st)) = generator[f]
            /\ \A i \in 1..Len(st) :
                  seqs'[Up(seqs', generator'[f], Len(st) - i)].kind = st[i]

\* C8: every chaining step is in place (C8_ChainStep), every facade's current
\* sequence carries the stages chained through it in chaining order, and a sink
\* run on the facade consumes that sequence.
C8_ChainingInPlace ==
    /\ [](/\ \A f \in Facades :
               Kinds(generator[f]) = Kinds(origin[f]) \o chained[f]
          /\ lastCall.op \in SinkMethods =>
               /\ Last(sinks).kind = lastCall.op
               /\ Last(sinks).seq = generator[lastCall.on])
    /\ [][C8_ChainStep]_vars

\* A sink run on a facade after two chaining calls on it.
C8_Witness ==
    /\ lastCall.op = "result"
    /\ Len(chained[lastCall.on]) >= 2
    /\ chained[lastCall.on][1] # chained[lastCall.on][2]
    /\ Kinds(Last(sinks).seq) = chained[lastCall.on]

\* The direct pullers of sequence s: the stages wrapped around it, the fork
\* factories built on it and the sinks run on it.
Pullers(s) ==
    Cardinality({t \in DOMAIN seqs : seqs[t].upstream = s})
    + Cardinality({k \in DOMAIN factories : factories[k].source = s})
    + Cardinality({i \in DOMAIN sinks : sinks[i].seq = s})

\* C9: every sequence instance has at most one direct puller; a sequence handed
\* to the fork subsystem is pulled by no later stage or sink of the facade.
C9_SinglePuller == \A s \in DOMAIN seqs : Pullers(s) <= 1

\* ------------------------------------------------------- properties: stages
\* The last stage chained, the sequence it was wrapped around and its argument.
LastOp == IF stages = <<>> THEN "none" ELSE Last(stages).op

Upstream == Last(stages).on

Arg == Last(stages).arg

\* C3: take(k) followed by result() returns the first min(k, L) items of what
\* it was applied to, for every k >= 0; take(0) returns nothing.
C3_TakeFirstK ==
    (LastOp = "take" /\ ~Upstream.thrown /\ res.status # "none") =>
        res = [status |-> "ok",
               value |-> SubSeq(Upstream.items, 1,
                                Min(Arg, Len(Upstream.items)))]

\* The outputs of fn on the items it does not throw on, in order.
Kept(items, fn) ==
    LET good == SelectSeq(items, LAMBDA x : ~Throws(fn, x))
    IN  [i \in 1..Len(good) |-> Call(fn, good[i])]

\* C5: a map whose policy answers skip for every failure yields fn(x) for the
\* items fn does not throw on, in order, drops the others, and result()
\* returns them without raising.
C5_MapSkipDropsFailures ==
    (/\ LastOp = "map"
     /\ ~Upstream.thrown
     /\ \A i \in DOMAIN Upstream.items :
           Throws(Arg[1], Upstream.items[i]) =>
               Outcome(Arg[2], Upstream.items[i]) = "skip") =>
        /\ stream = [items |-> Kept(Upstream.items, Arg[1]), thrown |-> FALSE]
        /\ res.status # "none" =>
              res = [status |-> "ok", value |-> Kept(Upstream.items, Arg[1])]

\* result() after a skipping map that dropped some items and kept others.
C5_Witness ==
    /\ LastOp = "map"
    /\ Arg = <<"failEven", "skip">>
    /\ res.status = "ok"
    /\ Len(res.value) >= 1
    /\ Len(res.value) < Len(Upstream.items)
    /\ Upstream.items[1] % 2 = 0

RECURSIVE Flatten(_)
Flatten(groups) ==
    IF groups = <<>> THEN <<>> ELSE Head(groups) \o Flatten(Tail(groups))

\* C6: chunk(n), n >= 1, on L items yields ceil(L / n) groups whose
\* concatenation is the input; all but the last have n elements and the last
\* has L mod n, or n when that is zero; no group is empty.
C6_ChunkGroups ==
    (LastOp = "chunk" /\ Arg >= 1 /\ ~Upstream.thrown) =>
        LET n == Arg
            L == Len(Upstream.items)
            g == stream.items
        IN  /\ ~stream.thrown
            /\ Len(g) = (L + n - 1) \div n
            /\ Flatten(g) = Upstream.items
            /\ \A i \in 1..(Len(g) - 1) : Len(g[i]) = n
            /\ g # <<>> => Len(Last(g)) = (IF L % n # 0 THEN L % n ELSE n)
            /\ \A i \in 1..Len(g) : Len(g[i]) >= 1
            /\ res.status # "none" => res = [status |-> "ok", value |-> g]

\* result() after chunk(2) of three items: a full group and the remainder.
C6_Witness ==
    /\ LastOp = "chunk"
    /\ Arg = 2
    /\ Len(Upstream.items) = 3
    /\ res.status = "ok"
    /\ Len(res.value) = 2
    /\ Len(res.value[2]) = 1

\* --------------------------------------------------------- properties: pipe
\* C4: every destination given to pipe is handed the source's items in order,
\* whatever the delay of its writes; it is signalled its end at most once, and
\* only once the source has ended and it has been handed every item; a pipe
\* fails only on a rejected write, and one that completes has done all this.
C4_PipeDeliversInOrder ==
    /\ \A d \in DOMAIN pipe.requested :
          /\ IsPrefix(pipe.handed[d], input)
          /\ pipe.ended[d] <= 1
          /\ pipe.ended[d] = 1 =>
                /\ pipe.pc = "done"
                /\ pipe.pos = Len(input)
                /\ pipe.handed[d] = input
          /\ pipe.pc = "done" =>
                /\ pipe.handed[d] = input
                /\ pipe.ended[d] = 1
    /\ pipe.pc = "failed" => pipe.rejected # {}

\* A pipe to two destinations, one of which settled its writes later than the
\* other, completed on a source of two or more items.
C4_Witness ==
    /\ pipe.pc = "done"
    /\ Len(pipe.requested) >= 2
    /\ Len(input) >= 2
    /\ pipe.lagged

====
